---- MODULE Spec2Model ----
(***************************************************************************)
(* A model of plist_json_convert.py: the two Sublime Text commands that    *)
(* convert a view's buffer between plist and JSON, and the save listener   *)
(* that triggers the JSON -> plist command.                                *)
(*                                                                         *)
(* Text is a sequence of characters.  A character is a one-character       *)
(* string, except for the characters that have no printable form, which    *)
(* are named: "LF" (U+000A), "CR" (U+000D), "TAB" (U+0009), "BS" (U+0008), *)
(* "FF" (U+000C), "SOH" (U+0001, a control character), "e-acute" (U+00E9,  *)
(* a non-ASCII character) and "other" (any character the model does not    *)
(* name).                                                                  *)
(*                                                                         *)
(* A Python value (what readPlist and json.loads return) is a record       *)
(* tagged by t: "str" (s), "int" (n), "bool" (b), "null", "date" (iso),    *)
(* "arr" (items) and "dict" (pairs: a sequence of [k, v] with distinct     *)
(* keys, in insertion order).                                              *)
(***************************************************************************)
EXTENDS Integers, Sequences, FiniteSets, TLC

(***************************************************************************)
(* Characters.                                                             *)
(***************************************************************************)
Digits == <<"0", "1", "2", "3", "4", "5", "6", "7", "8", "9">>

\* The code point of a character (Python compares str by code point).
Code(c) ==
    CASE c = "SOH" -> 1
      [] c = "BS" -> 8
      [] c = "TAB" -> 9
      [] c = "LF" -> 10
      [] c = "FF" -> 12
      [] c = "CR" -> 13
      [] c = " " -> 32
      [] c = "\"" -> 34
      [] c = "#" -> 35
      [] c = "&" -> 38
      [] c = "*" -> 42
      [] c = "," -> 44
      [] c = "-" -> 45
      [] c = "." -> 46
      [] c = "/" -> 47
      [] c = "0" -> 48
      [] c = "1" -> 49
      [] c = "2" -> 50
      [] c = "3" -> 51
      [] c = "4" -> 52
      [] c = "5" -> 53
      [] c = "6" -> 54
      [] c = "7" -> 55
      [] c = "8" -> 56
      [] c = "9" -> 57
      [] c = ":" -> 58
      [] c = ";" -> 59
      [] c = "<" -> 60
      [] c = ">" -> 62
      [] c = "B" -> 66
      [] c = "I" -> 73
      [] c = "J" -> 74
      [] c = "L" -> 76
      [] c = "N" -> 78
      [] c = "O" -> 79
      [] c = "P" -> 80
      [] c = "S" -> 83
      [] c = "T" -> 84
      [] c = "X" -> 88
      [] c = "Z" -> 90
      [] c = "[" -> 91
      [] c = "\\" -> 92
      [] c = "]" -> 93
      [] c = "a" -> 97
      [] c = "b" -> 98
      [] c = "c" -> 99
      [] c = "d" -> 100
      [] c = "e" -> 101
      [] c = "f" -> 102
      [] c = "g" -> 103
      [] c = "i" -> 105
      [] c = "j" -> 106
      [] c = "l" -> 108
      [] c = "m" -> 109
      [] c = "n" -> 110
      [] c = "o" -> 111
      [] c = "p" -> 112
      [] c = "r" -> 114
      [] c = "s" -> 115
      [] c = "t" -> 116
      [] c = "u" -> 117
      [] c = "x" -> 120
      [] c = "z" -> 122
      [] c = "{" -> 123
      [] c = "}" -> 125
      [] c = "e-acute" -> 233
      [] c = "other" -> 65533

IsControl(c) == Code(c) < 32
IsAscii(c) == Code(c) < 128

\* str.lower() on one character.
Lower(c) ==
    CASE c = "B" -> "b"
      [] c = "I" -> "i"
      [] c = "J" -> "j"
      [] c = "L" -> "l"
      [] c = "N" -> "n"
      [] c = "O" -> "o"
      [] c = "P" -> "p"
      [] c = "S" -> "s"
      [] c = "T" -> "t"
      [] c = "X" -> "x"
      [] c = "Z" -> "z"
      [] OTHER -> c

LowerAll(s) == [i \in 1..Len(s) |-> Lower(s[i])]

\* s < t in Python's ordering of str: lexicographic by code point.
RECURSIVE StrLess(_, _)
StrLess(s, t) ==
    IF t = <<>> THEN FALSE
    ELSE IF s = <<>> THEN TRUE
    ELSE IF Code(Head(s)) # Code(Head(t)) THEN Code(Head(s)) < Code(Head(t))
    ELSE StrLess(Tail(s), Tail(t))

\* Whether text s has the text p at position i (1-based).
HasAt(s, i, p) ==
    /\ i >= 1
    /\ i + Len(p) - 1 <= Len(s)
    /\ \A j \in 1..Len(p) : s[i + j - 1] = p[j]

\* s[i..j], empty when j < i.
Slice(s, i, j) == IF j < i THEN <<>> ELSE SubSeq(s, i, j)

RECURSIVE Concat(_)
Concat(ss) == IF ss = <<>> THEN <<>> ELSE Head(ss) \o Concat(Tail(ss))

(***************************************************************************)
(* Python values.                                                          *)
(***************************************************************************)
PyStr(s) == [t |-> "str", s |-> s]
PyInt(n) == [t |-> "int", n |-> n]
PyBool(b) == [t |-> "bool", b |-> b]
PyNone == [t |-> "null"]
PyDate(iso) == [t |-> "date", iso |-> iso]
PyList(items) == [t |-> "arr", items |-> items]
PyDict(pairs) == [t |-> "dict", pairs |-> pairs]

\* d[k] = v on an insertion-ordered dict: an existing key keeps its place.
DictSet(pairs, k, v) ==
    IF \E i \in 1..Len(pairs) : pairs[i].k = k
    THEN [i \in 1..Len(pairs) |->
            IF pairs[i].k = k THEN [k |-> k, v |-> v] ELSE pairs[i]]
    ELSE Append(pairs, [k |-> k, v |-> v])

\* sorted(d.items()) by key: insertion of one pair into a sorted sequence.
RECURSIVE InsertSorted(_, _)
InsertSorted(sorted, p) ==
    IF sorted = <<>> THEN <<p>>
    ELSE IF StrLess(p.k, Head(sorted).k) THEN <<p>> \o sorted
    ELSE <<Head(sorted)>> \o InsertSorted(Tail(sorted), p)

RECURSIVE SortedItems(_)
SortedItems(pairs) ==
    IF pairs = <<>> THEN <<>>
    ELSE InsertSorted(SortedItems(Tail(pairs)), Head(pairs))

(***************************************************************************)
(* json.dumps(obj, sort_keys=True, indent=4, separators=(',', ': '),       *)
(* ensure_ascii=...): the text json.encoder writes.                        *)
(***************************************************************************)
HexDigits == <<"0", "1", "2", "3", "4", "5", "6", "7", "8", "9",
               "a", "b", "c", "d", "e", "f">>

\* '\\u{0:04x}'.format(n)
UEscape(n) ==
    <<"\\", "u", HexDigits[((n \div 4096) % 16) + 1], HexDigits[((n \div 256) % 16) + 1],
      HexDigits[((n \div 16) % 16) + 1], HexDigits[(n % 16) + 1]>>

\* json.encoder's ESCAPE_DCT (and ESCAPE_ASCII when ensure_ascii is set).
EscapeChar(c, ensure_ascii) ==
    CASE c = "\"" -> <<"\\", "\"">>
      [] c = "\\" -> <<"\\", "\\">>
      [] c = "BS" -> <<"\\", "b">>
      [] c = "FF" -> <<"\\", "f">>
      [] c = "LF" -> <<"\\", "n">>
      [] c = "CR" -> <<"\\", "r">>
      [] c = "TAB" -> <<"\\", "t">>
      [] OTHER -> IF IsControl(c) \/ (ensure_ascii /\ ~IsAscii(c))
                  THEN UEscape(Code(c))
                  ELSE <<c>>

\* encode_basestring: the string between double quotes, escaped.
EncodeString(s, ensure_ascii) ==
    <<"\"">> \o Concat([i \in 1..Len(s) |-> EscapeChar(s[i], ensure_ascii)]) \o <<"\"">>

\* str(n) for an int.
RECURSIVE NatStr(_)
NatStr(n) == IF n < 10 THEN <<Digits[n + 1]>> ELSE NatStr(n \div 10) \o <<Digits[(n % 10) + 1]>>

IntStr(n) == IF n < 0 THEN <<"-">> \o NatStr(-n) ELSE NatStr(n)

\* '\n' + ' ' * (indent * level), with indent = 4.
NewlineIndent(level) == <<"LF">> \o [i \in 1..(4 * level) |-> " "]

\* Whether the encoder has a case for every value in obj: a datetime (and
\* any other type json does not know) reaches _default, which raises TypeError.
RECURSIVE JsonSerializable(_)
JsonSerializable(o) ==
    CASE o.t = "arr" -> \A i \in 1..Len(o.items) : JsonSerializable(o.items[i])
      [] o.t = "dict" -> \A i \in 1..Len(o.pairs) : JsonSerializable(o.pairs[i].v)
      [] o.t = "date" -> FALSE
      [] OTHER -> TRUE

\* json.dumps without sort_keys: the keys in the order of the dict.
SortKeys_Off == FALSE

\* Whether dict keys are written in sorted order (sort_keys=True).
SortKeys == TRUE

\* _iterencode: the text of o at nesting depth level.
RECURSIVE IterEncode(_, _, _)
IterEncode(o, level, ensure_ascii) ==
    CASE o.t = "str" -> EncodeString(o.s, ensure_ascii)
      [] o.t = "null" -> <<"n", "u", "l", "l">>
      [] o.t = "bool" -> IF o.b THEN <<"t", "r", "u", "e">> ELSE <<"f", "a", "l", "s", "e">>
      [] o.t = "int" -> IntStr(o.n)
      [] o.t = "arr" ->
            IF o.items = <<>> THEN <<"[", "]">>
            ELSE <<"[">>
                 \o Concat([i \in 1..Len(o.items) |->
                       (IF i = 1 THEN <<>> ELSE <<",">>)
                       \o NewlineIndent(level + 1)
                       \o IterEncode(o.items[i], level + 1, ensure_ascii)])
                 \o NewlineIndent(level) \o <<"]">>
      [] o.t = "dict" ->
            IF o.pairs = <<>> THEN <<"{", "}">>
            ELSE LET items == IF SortKeys THEN SortedItems(o.pairs) ELSE o.pairs
                 IN  <<"{">>
                     \o Concat([i \in 1..Len(items) |->
                           (IF i = 1 THEN <<>> ELSE <<",">>)
                           \o NewlineIndent(level + 1)
                           \o EncodeString(items[i].k, ensure_ascii)
                           \o <<":", " ">>
                           \o IterEncode(items[i].v, level + 1, ensure_ascii)])
                     \o NewlineIndent(level) \o <<"}">>

\* json.dumps: [err |-> TRUE] when TypeError is raised, else the text.
JsonDumps(obj, ensure_ascii) ==
    IF JsonSerializable(obj)
    THEN [err |-> FALSE, text |-> IterEncode(obj, 0, ensure_ascii)]
    ELSE [err |-> TRUE]

(***************************************************************************)
(* sanitize_json(text, True): comments and trailing commas removed.  The   *)
(* function lives in PlistJsonConverterLib/file_strip/json.py.             *)
(***************************************************************************)
IsLineEnd(c) == c \in {"LF", "CR"}
IsJsonSpace(c) == c \in {" ", "TAB", "LF", "CR"}

\* The index of the first character at or after i that is not white space
\* (Len(text) + 1 when there is none).
SkipSpace(text, i) ==
    CHOOSE j \in i..(Len(text) + 1) :
        /\ \A k \in i..(j - 1) : IsJsonSpace(text[k])
        /\ j = Len(text) + 1 \/ ~IsJsonSpace(text[j])

\* One step of the left-to-right scan that removes comments: the scanner is
\* in mode m and reads c.  The modes are "code", "slash" (a "/" read in code,
\* not yet written), "str" (inside a string literal), "esc" (after a
\* backslash inside a string literal), "line" (inside a // comment), "block"
\* (inside a /* comment) and "star" (a "*" read inside a /* comment).
CommentStep(m, c) ==
    LET code(out) == [mode |-> IF c = "\"" THEN "str" ELSE IF c = "/" THEN "slash" ELSE "code",
                      out |-> IF c = "/" THEN out ELSE Append(out, c)]
    IN
    CASE m = "code" -> code(<<>>)
      [] m = "slash" -> IF c = "/" THEN [mode |-> "line", out |-> <<>>]
                        ELSE IF c = "*" THEN [mode |-> "block", out |-> <<>>]
                        ELSE code(<<"/">>)
      [] m = "str" -> [mode |-> IF c = "\\" THEN "esc" ELSE IF c = "\"" THEN "code" ELSE "str",
                       out |-> <<c>>]
      [] m = "esc" -> [mode |-> "str", out |-> <<c>>]
      [] m = "line" -> IF IsLineEnd(c) THEN [mode |-> "code", out |-> <<c>>]
                       ELSE [mode |-> "line", out |-> <<>>]
      [] m = "block" -> [mode |-> IF c = "*" THEN "star" ELSE "block", out |-> <<>>]
      [] m = "star" -> [mode |-> IF c = "/" THEN "code" ELSE IF c = "*" THEN "star" ELSE "block",
                        out |-> <<>>]

\* The scan of text[lo..hi] entered in mode m: the mode it ends in and what it
\* writes.  The scan of a range is the scan of its halves, one after the other.
RECURSIVE CommentScan(_, _, _, _)
CommentScan(text, lo, hi, m) ==
    IF lo > hi THEN [mode |-> m, out |-> <<>>]
    ELSE IF lo = hi THEN CommentStep(m, text[lo])
    ELSE LET mid == (lo + hi) \div 2
             l == CommentScan(text, lo, mid, m)
             r == CommentScan(text, mid + 1, hi, l.mode)
         IN  [out |-> l.out \o r.out, mode |-> r.mode]

\* Comments removed; an unterminated block comment is an error.
StripComments(text) ==
    LET r == CommentScan(text, 1, Len(text), "code") IN
    IF r.mode \in {"block", "star"} THEN [err |-> TRUE]
    ELSE [err |-> FALSE, text |-> IF r.mode = "slash" THEN Append(r.out, "/") ELSE r.out]

\* Whether only white space separates position i from a closing bracket or
\* brace.
BeforeClosing(text, i) ==
    LET j == SkipSpace(text, i + 1) IN j <= Len(text) /\ text[j] \in {"]", "}"}

\* One step of the scan that removes trailing commas, at position i in mode m
\* ("code", "str" or "esc"): a comma outside a string literal is dropped when
\* it is BeforeClosing.
CommaStep(text, i, m) ==
    LET c == text[i] IN
    CASE m = "code" -> [mode |-> IF c = "\"" THEN "str" ELSE "code",
                        out |-> IF c = "," /\ BeforeClosing(text, i) THEN <<>> ELSE <<c>>]
      [] m = "str" -> [mode |-> IF c = "\\" THEN "esc" ELSE IF c = "\"" THEN "code" ELSE "str",
                       out |-> <<c>>]
      [] m = "esc" -> [mode |-> "str", out |-> <<c>>]

RECURSIVE CommaScan(_, _, _, _)
CommaScan(text, lo, hi, m) ==
    IF lo > hi THEN [mode |-> m, out |-> <<>>]
    ELSE IF lo = hi THEN CommaStep(text, lo, m)
    ELSE LET mid == (lo + hi) \div 2
             l == CommaScan(text, lo, mid, m)
             r == CommaScan(text, mid + 1, hi, l.mode)
         IN  [out |-> l.out \o r.out, mode |-> r.mode]

StripTrailingCommas(text) == CommaScan(text, 1, Len(text), "code").out

\* sanitize_json(text, strip_trailing_commas)
sanitize_json(text, strip_trailing_commas) ==
    LET stripped == StripComments(text) IN
    IF stripped.err THEN [err |-> TRUE]
    ELSE [err |-> FALSE,
          text |-> IF strip_trailing_commas
                   THEN StripTrailingCommas(stripped.text)
                   ELSE stripped.text]

(***************************************************************************)
(* json.loads(text): the strict decoder of the json module.  Numbers are   *)
(* integers: no text of the model holds a fraction or an exponent.         *)
(***************************************************************************)
Fail == [ok |-> FALSE]
Got(v, i) == [ok |-> TRUE, v |-> v, i |-> i]

IsDigit(c) == c \in {Digits[k] : k \in 1..10}
DigitVal(c) == CHOOSE k \in 0..9 : Digits[k + 1] = c
IsHex(c) == Lower(c) \in {HexDigits[k] : k \in 1..16}
HexVal(c) == CHOOSE k \in 0..15 : HexDigits[k + 1] = Lower(c)

NamedChars == {"SOH", "BS", "TAB", "LF", "FF", "CR", " ", "\"", "#", "&", "*", ",", "-", ".",
               "/", "0", "1", "2", "3", "4", "5", "6", "7", "8", "9", ":", ";", "<", ">",
               "B", "I", "J", "L", "N", "O", "P", "S", "T", "X", "Z", "[", "\\", "]", "a",
               "b", "c", "d", "e", "f", "g", "i", "j", "l", "m", "n", "o", "p", "r", "s",
               "t", "u", "x", "z", "{", "}", "e-acute"}

\* chr(n)
Chr(n) == IF \E c \in NamedChars : Code(c) = n
          THEN CHOOSE c \in NamedChars : Code(c) = n
          ELSE "other"

\* py_scanstring from just after the opening quote, strict: a control
\* character inside the literal is an error.
RECURSIVE ScanString(_, _, _)
ScanString(s, i, acc) ==
    IF i > Len(s) THEN Fail
    ELSE LET c == s[i] IN
         IF c = "\"" THEN Got(acc, i + 1)
         ELSE IF c = "\\" THEN
            IF i + 1 > Len(s) THEN Fail
            ELSE LET e == s[i + 1] IN
                 CASE e = "\"" -> ScanString(s, i + 2, Append(acc, "\""))
                   [] e = "\\" -> ScanString(s, i + 2, Append(acc, "\\"))
                   [] e = "/" -> ScanString(s, i + 2, Append(acc, "/"))
                   [] e = "b" -> ScanString(s, i + 2, Append(acc, "BS"))
                   [] e = "f" -> ScanString(s, i + 2, Append(acc, "FF"))
                   [] e = "n" -> ScanString(s, i + 2, Append(acc, "LF"))
                   [] e = "r" -> ScanString(s, i + 2, Append(acc, "CR"))
                   [] e = "t" -> ScanString(s, i + 2, Append(acc, "TAB"))
                   [] e = "u" ->
                        IF i + 5 <= Len(s) /\ \A k \in 2..5 : IsHex(s[i + k])
                        THEN ScanString(s, i + 6,
                                Append(acc, Chr(4096 * HexVal(s[i + 2]) + 256 * HexVal(s[i + 3])
                                                + 16 * HexVal(s[i + 4]) + HexVal(s[i + 5]))))
                        ELSE Fail
                   [] OTHER -> Fail
         ELSE IF IsControl(c) THEN Fail
         ELSE ScanString(s, i + 1, Append(acc, c))

\* The end of the digits that start at i.
RECURSIVE DigitsEnd(_, _)
DigitsEnd(s, i) == IF i <= Len(s) /\ IsDigit(s[i]) THEN DigitsEnd(s, i + 1) ELSE i

RECURSIVE DigitsVal(_, _)
DigitsVal(ds, acc) == IF ds = <<>> THEN acc ELSE DigitsVal(Tail(ds), 10 * acc + DigitVal(Head(ds)))

\* NUMBER_RE, integer part: -?(0|[1-9]\d*)
ScanNumber(s, i) ==
    LET neg == i <= Len(s) /\ s[i] = "-"
        d == IF neg THEN i + 1 ELSE i
        e == IF d <= Len(s) /\ s[d] = "0" THEN d + 1 ELSE DigitsEnd(s, d)
    IN  IF e = d THEN Fail
        ELSE Got(PyInt((IF neg THEN -1 ELSE 1) * DigitsVal(SubSeq(s, d, e - 1), 0)), e)

RECURSIVE ScanOnce(_, _)
RECURSIVE JSONObject(_, _, _)
RECURSIVE JSONArray(_, _, _)

\* scan_once: the value that starts at i.
ScanOnce(s, i) ==
    IF i > Len(s) THEN Fail
    ELSE LET c == s[i] IN
         CASE c = "\"" -> LET r == ScanString(s, i + 1, <<>>) IN
                          IF r.ok THEN Got(PyStr(r.v), r.i) ELSE Fail
           [] c = "{" -> LET j == SkipSpace(s, i + 1) IN
                         IF j <= Len(s) /\ s[j] = "}" THEN Got(PyDict(<<>>), j + 1)
                         ELSE JSONObject(s, j, <<>>)
           [] c = "[" -> LET j == SkipSpace(s, i + 1) IN
                         IF j <= Len(s) /\ s[j] = "]" THEN Got(PyList(<<>>), j + 1)
                         ELSE JSONArray(s, j, <<>>)
           [] HasAt(s, i, <<"n", "u", "l", "l">>) -> Got(PyNone, i + 4)
           [] HasAt(s, i, <<"t", "r", "u", "e">>) -> Got(PyBool(TRUE), i + 4)
           [] HasAt(s, i, <<"f", "a", "l", "s", "e">>) -> Got(PyBool(FALSE), i + 5)
           [] OTHER -> ScanNumber(s, i)

\* JSONObject from the first key (i is at its opening quote); a repeated key
\* keeps its last value.
JSONObject(s, i, pairs) ==
    IF ~(i <= Len(s) /\ s[i] = "\"") THEN Fail
    ELSE LET key == ScanString(s, i + 1, <<>>) IN
         IF ~key.ok THEN Fail
         ELSE LET colon == SkipSpace(s, key.i) IN
              IF ~(colon <= Len(s) /\ s[colon] = ":") THEN Fail
              ELSE LET val == ScanOnce(s, SkipSpace(s, colon + 1)) IN
                   IF ~val.ok THEN Fail
                   ELSE LET next == SkipSpace(s, val.i)
                            got == DictSet(pairs, key.v, val.v)
                        IN  IF next > Len(s) THEN Fail
                            ELSE IF s[next] = "}" THEN Got(PyDict(got), next + 1)
                            ELSE IF s[next] = "," THEN JSONObject(s, SkipSpace(s, next + 1), got)
                            ELSE Fail

\* JSONArray from the first item.
JSONArray(s, i, items) ==
    LET val == ScanOnce(s, i) IN
    IF ~val.ok THEN Fail
    ELSE LET next == SkipSpace(s, val.i)
             got == Append(items, val.v)
         IN  IF next > Len(s) THEN Fail
             ELSE IF s[next] = "]" THEN Got(PyList(got), next + 1)
             ELSE IF s[next] = "," THEN JSONArray(s, SkipSpace(s, next + 1), got)
             ELSE Fail

\* json.loads: [err |-> TRUE] when ValueError is raised, else the value.
JsonLoads(text) ==
    LET r == ScanOnce(text, SkipSpace(text, 1)) IN
    IF r.ok /\ SkipSpace(text, r.i) > Len(text)
    THEN [err |-> FALSE, obj |-> r.v]
    ELSE [err |-> TRUE]

(***************************************************************************)
(* plistlib.  A document is [fmt |-> "xml", root |-> element] when it is   *)
(* well-formed XML with a plist element around root, and [fmt |-> "text",  *)
(* chars |-> text] when it is any other text (expat rejects it).  An       *)
(* element is [tag, text] (string, integer, key, date: text is the         *)
(* character data as written, references included), [tag] (true, false)    *)
(* or [tag, kids] (array, dict).                                           *)
(***************************************************************************)
XmlText(tag, text) == [tag |-> tag, text |-> text]
XmlEmpty(tag) == [tag |-> tag]
XmlNode(tag, kids) == [tag |-> tag, kids |-> kids]
XmlDoc(root) == [fmt |-> "xml", root |-> root]
TextDoc(chars) == [fmt |-> "text", chars |-> chars]

\* The end of the reference that starts with the "&" at i: the index of its
\* ";", or 0 when there is none.
RefEnd(text, i) ==
    IF \E j \in (i + 1)..Len(text) : text[j] = ";"
    THEN CHOOSE j \in (i + 1)..Len(text) :
            text[j] = ";" /\ \A k \in (i + 1)..(j - 1) : text[k] # ";"
    ELSE 0

\* The character a reference names (name is the text between "&" and ";"),
\* <<>> when the parser knows no such reference.
RefChar(name) ==
    CASE name = <<"a", "m", "p">> -> <<"&">>
      [] name = <<"l", "t">> -> <<"<">>
      [] name = <<"g", "t">> -> <<">">>
      [] Len(name) >= 2 /\ name[1] = "#" /\ \A k \in 2..Len(name) : IsDigit(name[k]) ->
            LET c == Chr(DigitsVal(Tail(name), 0)) IN
            IF IsControl(c) /\ c \notin {"TAB", "LF", "CR"} THEN <<>> ELSE <<c>>
      [] OTHER -> <<>>

\* expat on character data: references replaced, a literal line end read as
\* LF; [ok |-> FALSE] when the data is not well-formed.
RECURSIVE XmlCharData(_, _, _)
XmlCharData(text, i, acc) ==
    IF i > Len(text) THEN [ok |-> TRUE, v |-> acc]
    ELSE LET c == text[i] IN
         IF c = "&" THEN
            LET e == RefEnd(text, i)
                r == RefChar(Slice(text, i + 1, e - 1))
            IN  IF e = 0 \/ r = <<>> THEN Fail
                ELSE XmlCharData(text, e + 1, acc \o r)
         ELSE IF c = "<" THEN Fail
         ELSE IF c = "CR" THEN
            XmlCharData(text, IF HasAt(text, i + 1, <<"LF">>) THEN i + 2 ELSE i + 1,
                        Append(acc, "LF"))
         ELSE IF IsControl(c) /\ c \notin {"TAB", "LF"} THEN Fail
         ELSE XmlCharData(text, i + 1, Append(acc, c))

\* int(text)
IsIntText(t) ==
    LET d == IF t # <<>> /\ Head(t) = "-" THEN Tail(t) ELSE t
    IN  d # <<>> /\ \A k \in 1..Len(d) : IsDigit(d[k])

IntOf(t) == IF Head(t) = "-" THEN -DigitsVal(Tail(t), 0) ELSE DigitsVal(t, 0)

\* The longest text _dateParser takes before its "Z", a "d" standing for \d.
DateShape == <<"d", "d", "d", "d", "-", "d", "d", "-", "d", "d", "T", "d", "d", ":",
               "d", "d", ":", "d", "d">>

\* _dateFromString: whether _dateParser matches at the start of t, which takes
\* the year and then, each only after the one before it, the month, the day,
\* the hour, the minute and the second, and "Z" after the last one there is.
\* (The values are those of a date: the model writes no month 13.)
IsDateText(t) ==
    \E n \in {4, 7, 10, 13, 16, 19} :
        /\ Len(t) > n
        /\ t[n + 1] = "Z"
        /\ \A k \in 1..n : IF DateShape[k] = "d" THEN IsDigit(t[k]) ELSE t[k] = DateShape[k]

RECURSIVE PlistValue(_)
RECURSIVE PlistArray(_, _)
RECURSIVE PlistDict(_, _)

\* PlistParser: the value of one element.
PlistValue(el) ==
    CASE el.tag \in {"string", "integer", "date"} ->
            LET d == XmlCharData(el.text, 1, <<>>) IN
            IF ~d.ok THEN Fail
            ELSE IF el.tag = "string" THEN [ok |-> TRUE, v |-> PyStr(d.v)]
            ELSE IF el.tag = "date"
            THEN IF IsDateText(d.v) THEN [ok |-> TRUE, v |-> PyDate(d.v)] ELSE Fail
            ELSE IF IsIntText(d.v) THEN [ok |-> TRUE, v |-> PyInt(IntOf(d.v))]
            ELSE Fail
      [] el.tag = "true" -> [ok |-> TRUE, v |-> PyBool(TRUE)]
      [] el.tag = "false" -> [ok |-> TRUE, v |-> PyBool(FALSE)]
      [] el.tag = "array" -> PlistArray(el.kids, <<>>)
      [] el.tag = "dict" -> PlistDict(el.kids, <<>>)
      [] OTHER -> Fail

PlistArray(kids, items) ==
    IF kids = <<>> THEN [ok |-> TRUE, v |-> PyList(items)]
    ELSE LET r == PlistValue(Head(kids)) IN
         IF r.ok THEN PlistArray(Tail(kids), Append(items, r.v)) ELSE Fail

\* A dict's children are a key, its value, a key, its value...; a key that
\* comes again takes the later value.
PlistDict(kids, pairs) ==
    IF kids = <<>> THEN [ok |-> TRUE, v |-> PyDict(pairs)]
    ELSE IF Len(kids) < 2 \/ Head(kids).tag # "key" THEN Fail
    ELSE LET k == XmlCharData(kids[1].text, 1, <<>>)
             r == PlistValue(kids[2])
         IN  IF k.ok /\ r.ok
             THEN PlistDict(Tail(Tail(kids)), DictSet(pairs, k.v, r.v))
             ELSE Fail

\* readPlist(BytesIO(text.encode('utf8'))): [err |-> TRUE] when it raises.
readPlist(doc) ==
    IF doc.fmt # "xml" THEN [err |-> TRUE]
    ELSE LET r == PlistValue(doc.root) IN
         IF r.ok THEN [err |-> FALSE, obj |-> r.v] ELSE [err |-> TRUE]

\* plistlib._escape, after its check for control characters: line endings
\* made LF, then "&", "<" and ">" written as references.
RECURSIVE PlistEscape(_)
PlistEscape(s) ==
    IF s = <<>> THEN <<>>
    ELSE LET c == Head(s) IN
         IF c = "CR" THEN
            <<"LF">> \o PlistEscape(IF Len(s) >= 2 /\ s[2] = "LF" THEN Tail(Tail(s)) ELSE Tail(s))
         ELSE (CASE c = "&" -> <<"&", "a", "m", "p", ";">>
                 [] c = "<" -> <<"&", "l", "t", ";">>
                 [] c = ">" -> <<"&", "g", "t", ";">>
                 [] OTHER -> <<c>>) \o PlistEscape(Tail(s))

\* _controlCharPat: what _escape raises ValueError for.
HasPlistControl(s) == \E i \in 1..Len(s) : IsControl(s[i]) /\ s[i] \notin {"TAB", "LF", "CR"}

\* Whether PlistWriter.writeValue has a case for every value in obj and every
\* string passes _escape: None raises TypeError.
RECURSIVE PlistWritable(_)
PlistWritable(o) ==
    CASE o.t = "str" -> ~HasPlistControl(o.s)
      [] o.t = "arr" -> \A i \in 1..Len(o.items) : PlistWritable(o.items[i])
      [] o.t = "dict" -> \A i \in 1..Len(o.pairs) :
                            ~HasPlistControl(o.pairs[i].k) /\ PlistWritable(o.pairs[i].v)
      [] o.t = "null" -> FALSE
      [] OTHER -> TRUE

\* PlistWriter.writeValue: the element written for o; a dict is written with
\* its keys sorted.
RECURSIVE writeValue(_)
writeValue(o) ==
    CASE o.t = "str" -> XmlText("string", PlistEscape(o.s))
      [] o.t = "int" -> XmlText("integer", IntStr(o.n))
      [] o.t = "bool" -> XmlEmpty(IF o.b THEN "true" ELSE "false")
      [] o.t = "date" -> XmlText("date", o.iso)
      [] o.t = "arr" -> XmlNode("array", [i \in 1..Len(o.items) |-> writeValue(o.items[i])])
      [] o.t = "dict" ->
            LET items == SortedItems(o.pairs) IN
            XmlNode("dict", Concat([i \in 1..Len(items) |->
                        <<XmlText("key", PlistEscape(items[i].k)), writeValue(items[i].v)>>]))

\* obj with an empty string for every None.
RECURSIVE NoneAsEmpty(_)
NoneAsEmpty(o) ==
    CASE o.t = "null" -> PyStr(<<>>)
      [] o.t = "arr" -> PyList([i \in 1..Len(o.items) |-> NoneAsEmpty(o.items[i])])
      [] o.t = "dict" -> PyDict([i \in 1..Len(o.pairs) |->
                                    [k |-> o.pairs[i].k, v |-> NoneAsEmpty(o.pairs[i].v)]])
      [] OTHER -> o

\* A writer that takes None for an empty string instead of raising.
writePlistToBytes_NoneAsEmpty(obj) ==
    IF PlistWritable(NoneAsEmpty(obj))
    THEN [err |-> FALSE, doc |-> XmlDoc(writeValue(NoneAsEmpty(obj)))]
    ELSE [err |-> TRUE]

\* writePlistToBytes(obj).decode('utf-8'): [err |-> TRUE] when it raises.
writePlistToBytes(obj) ==
    IF PlistWritable(obj) THEN [err |-> FALSE, doc |-> XmlDoc(writeValue(obj))]
    ELSE [err |-> TRUE]

(***************************************************************************)
(* The commands.  A file name is a text, or None.                          *)
(***************************************************************************)
None == <<"None">>
NoTree == [t |-> "unset"]
NoDoc == [fmt |-> "unset"]

PlistToJson == "plist_to_json"
JsonToPlist == "json_to_plist"
Commands == {PlistToJson, JsonToPlist}

\* The last index of character c in p, 0 when p has none (str.rfind).
RFind(p, c) ==
    IF \E i \in 1..Len(p) : p[i] = c
    THEN CHOOSE i \in 1..Len(p) : p[i] = c /\ \A j \in (i + 1)..Len(p) : p[j] # c
    ELSE 0

\* os.path.splitext(p)[0]: p without its extension.  The extension starts at
\* the last dot after the last separator, unless only dots precede that dot
\* in the last component.
splitext_root(p) ==
    LET sepIndex == RFind(p, "/")
        dotIndex == RFind(p, ".")
    IN  IF dotIndex > sepIndex /\ \E k \in (sepIndex + 1)..(dotIndex - 1) : p[k] # "."
        THEN Slice(p, 1, dotIndex - 1)
        ELSE p

\* os.path.basename(p)
basename(p) == Slice(p, RFind(p, "/") + 1, Len(p))

\* re.match("^(.*)\\." + ext + "$", filename, re.IGNORECASE) is not None:
\* ext is a regular expression, in which "." stands for any character; every
\* other character of an extension in this model stands for itself.
ExtMatches(ext, filename) ==
    LET n == Len(ext)
        at == Len(filename) - n
    IN  /\ at >= 1
        /\ filename[at] = "."
        /\ \A k \in 1..n : ext[k] = "." \/ Lower(ext[k]) = Lower(filename[at + k])

\* m.group(1): the file name before the dot of the matched extension.
ExtStem(ext, filename) == Slice(filename, 1, Len(filename) - Len(ext) - 1)

\* get_output_file of the two commands: the first entry of conversion_ext
\* that matches names the output, else the extension becomes the default.
get_output_file(cmd, filename, ext_tbl) ==
    LET from == IF cmd = PlistToJson THEN "plist" ELSE "json"
        to == IF cmd = PlistToJson THEN "json" ELSE "plist"
        default == IF cmd = PlistToJson THEN <<".", "J", "S", "O", "N">>
                   ELSE <<".", "p", "l", "i", "s", "t">>
        hits == {i \in 1..Len(ext_tbl) : ExtMatches(ext_tbl[i][from], filename)}
    IN  IF hits # {}
        THEN LET i == CHOOSE i \in hits : \A j \in hits : i <= j
             IN  ExtStem(ext_tbl[i][from], filename) \o <<".">> \o ext_tbl[i][to]
        ELSE splitext_root(filename) \o default

\* LanguageConverter.is_enabled
is_enabled(cfg, save_to_file, force) ==
    IF force
    THEN IF save_to_file /\ ~cfg.enable_save_to_file_commands THEN FALSE
         ELSE IF ~save_to_file /\ ~cfg.enable_show_in_buffer_commands THEN FALSE
         ELSE TRUE
    ELSE TRUE

\* json.loads(file_strip.json.sanitize_json(text, True)), clean being what
\* sanitize_json gave.
loads_sanitized(clean) == IF clean.err THEN [err |-> TRUE] ELSE JsonLoads(clean.text)

\* The parameters in the signature of is_enabled.
EnabledParams == {"save_to_file", "force"}

\* How the editor asks whether a command is enabled for its arguments: it
\* calls is_enabled(**args), and is_enabled() when that raises TypeError,
\* which it does for an argument that is none of is_enabled's parameters.
is_enabled_(cfg, given, save_to_file, force) ==
    IF given \subseteq EnabledParams THEN is_enabled(cfg, save_to_file, force)
    ELSE is_enabled(cfg, FALSE, FALSE)

\* read_buffer of the two commands: the tree read from the view's buffer, or
\* err when the reader raised.
read_buffer(cmd, buffer) ==
    IF cmd = PlistToJson THEN readPlist(buffer)
    ELSE IF buffer.fmt # "text" THEN [err |-> TRUE]
    ELSE loads_sanitized(sanitize_json(buffer.chars, TRUE))

\* convert of the two commands: the output text, or err when the writer
\* raised.
convert(cmd, tree) ==
    IF cmd = PlistToJson
    THEN LET d == JsonDumps(tree, FALSE) IN
         IF d.err THEN [err |-> TRUE] ELSE [err |-> FALSE, output |-> TextDoc(d.text)]
    ELSE LET w == writePlistToBytes(tree) IN
         IF w.err THEN [err |-> TRUE] ELSE [err |-> FALSE, output |-> w.doc]

\* The setting named by the command's lang, its default_lang without one.
Syntax(cmd, cfg) ==
    IF cmd = PlistToJson
    THEN IF cfg.json_language = "" THEN "Packages/Javascript/JSON.tmLanguage"
         ELSE cfg.json_language
    ELSE IF cfg.plist_language = "" THEN "Packages/XML/XML.tmLanguage"
         ELSE cfg.plist_language

ERRORS(cmd, stage) ==
    CASE stage = "read" -> IF cmd = PlistToJson THEN "view2plist" ELSE "view2json"
      [] stage = "convert" -> IF cmd = PlistToJson THEN "plist2json" ELSE "json2plist"
      [] stage = "file" -> "filewrite"
      [] stage = "buffer" -> "bufferwrite"

\* A run that goes on to write after convert returned errors.
ShouldWrite_ReadOnly(read_err, convert_err) == ~read_err

\* run: the write happens when neither read_buffer nor convert returned errors.
ShouldWrite(read_err, convert_err) == ~read_err /\ ~convert_err

\* __write_file: the output goes to a file when the view has a file name that
\* exists on disk.
HasSaveTarget(filename, files) == filename # None /\ filename \in files

\* A __write_buffer that looks at the open_in_new_buffer setting alone.
UseNewBuffer_SettingOnly(new_buffer, force_new_buffer) == new_buffer

\* __write_buffer: the output goes to a new view rather than to the view itself.
UseNewBuffer(new_buffer, force_new_buffer) == new_buffer \/ force_new_buffer

(***************************************************************************)
(* The state.                                                              *)
(***************************************************************************)
VARIABLES
    view_buffer,     \* the text of the view the commands belong to
    view_file_name,  \* view.file_name(): a file name or None
    view_syntax,     \* the syntax file set on the view
    disk,            \* the files on disk: file name -> text
    views,           \* the other views of the window, in the order they were made
    settings,        \* plist_json_convert.sublime-settings
    cmds,            \* the attributes of the two command objects of the view
    dialogs,         \* the messages error_msg showed during the last handler
    last,            \* the last handler and its arguments
    prev,            \* the state the last handler started in
    origin,          \* the text the user last gave the view
    hops,            \* the commands that have replaced that text since, in order
    steps            \* the number of handlers run

vars == <<view_buffer, view_file_name, view_syntax, disk, views, settings, cmds,
          dialogs, last, prev, origin, hops, steps>>

\* What a handler can change, as one value.
Current == [cmds |-> cmds, buffer |-> view_buffer, syntax |-> view_syntax,
            disk |-> disk, views |-> views, dialogs |-> <<>>]

\* output_view: -1 before any assignment, 0 for the view itself, k for views[k].
SetAttr(st, cmd, attr, value) ==
    [st EXCEPT !.cmds = [st.cmds EXCEPT ![cmd] = [st.cmds[cmd] EXCEPT ![attr] = value]]]

error_msg(st, msg) == [st EXCEPT !.dialogs = Append(st.dialogs, msg)]

\* __write_buffer, followed by its __set_syntax.
write_buffer(cmd, st, force_new_buffer) ==
    LET new_buffer == settings.open_in_new_buffer
        output == st.cmds[cmd].output
    IN  IF UseNewBuffer(new_buffer, force_new_buffer)
        THEN LET buffer_name ==
                     IF view_file_name # None
                     THEN basename(get_output_file(cmd, view_file_name, settings.conversion_ext))
                     ELSE None
                 made == [origin |-> "new_file", name |-> buffer_name, content |-> output,
                          syntax |-> Syntax(cmd, settings)]
             IN  SetAttr([st EXCEPT !.views = Append(st.views, made)],
                         cmd, "output_view", Len(st.views) + 1)
        ELSE SetAttr([st EXCEPT !.buffer = output, !.syntax = Syntax(cmd, settings)],
                     cmd, "output_view", 0)

\* __write_file; io_ok is whether the file can be opened and written.
write_file(cmd, st, show_file, io_ok) ==
    IF HasSaveTarget(view_file_name, DOMAIN st.disk)
    THEN LET save_filename == get_output_file(cmd, view_file_name, settings.conversion_ext)
             output == st.cmds[cmd].output
             written == [st EXCEPT !.disk =
                            [f \in DOMAIN st.disk \cup {save_filename} |->
                                IF f = save_filename THEN output ELSE st.disk[f]]]
             opened == [origin |-> "open_file", name |-> save_filename, content |-> output,
                        syntax |-> Syntax(cmd, settings)]
         IN  IF ~io_ok THEN error_msg(st, ERRORS(cmd, "file"))
             ELSE IF show_file
             THEN SetAttr([written EXCEPT !.views = Append(written.views, opened)],
                          cmd, "output_view", Len(written.views) + 1)
             ELSE written
    ELSE write_buffer(cmd, st, TRUE)

\* run, from the call of read_buffer to the one of convert: r is what
\* read_buffer returned.
run_read(cmd, st, r) ==
    IF r.err THEN [err |-> TRUE, st |-> error_msg(st, ERRORS(cmd, "read"))]
    ELSE [err |-> FALSE, st |-> SetAttr(st, cmd, "tree", r.obj)]

\* run, from the call of convert to the write: c is what convert returned.
run_convert(cmd, st, c) ==
    IF c.err THEN [err |-> TRUE, st |-> error_msg(st, ERRORS(cmd, "convert"))]
    ELSE [err |-> FALSE, st |-> SetAttr(st, cmd, "output", c.output)]

run_converted(cmd, read) ==
    IF read.err THEN read ELSE run_convert(cmd, read.st, convert(cmd, read.st.cmds[cmd].tree))

\* A run that writes self.output whenever there is one, also the one an
\* earlier run left when this run returned errors.
run_write_Stale(cmd, read, converted, save_to_file, show_file, io_ok) ==
    IF ShouldWrite(read.err, converted.err /\ ~read.err)
       \/ converted.st.cmds[cmd].output # NoDoc
    THEN IF save_to_file THEN write_file(cmd, converted.st, show_file, io_ok)
         ELSE write_buffer(cmd, converted.st, FALSE)
    ELSE converted.st

\* run, the write: read and converted are the results of the two stages.
run_write(cmd, read, converted, save_to_file, show_file, io_ok) ==
    IF ShouldWrite(read.err, converted.err /\ ~read.err)
    THEN IF save_to_file THEN write_file(cmd, converted.st, show_file, io_ok)
         ELSE write_buffer(cmd, converted.st, FALSE)
    ELSE converted.st

run_from(cmd, read, save_to_file, show_file, io_ok) ==
    run_write(cmd, read, run_converted(cmd, read), save_to_file, show_file, io_ok)

\* LanguageConverter.run
run(cmd, st, save_to_file, show_file, io_ok) ==
    run_from(cmd, run_read(cmd, st, read_buffer(cmd, st.buffer)), save_to_file, show_file, io_ok)

\* view.run_command(cmd, args): the command runs when it is enabled for args.
\* given is the set of the arguments args names; the others have the values
\* of their defaults.
run_command(cmd, st, given, save_to_file, show_file, force, io_ok) ==
    IF is_enabled_(settings, given, save_to_file, force)
    THEN run(cmd, st, save_to_file, show_file, io_ok)
    ELSE st

\* filename.endswith(end), the letter case as it is.
EndsWith_CaseSensitive(filename, end) ==
    /\ Len(end) <= Len(filename)
    /\ SubSeq(filename, Len(filename) - Len(end) + 1, Len(filename)) = end

\* filename.lower().endswith(end.lower())
EndsWithLower(filename, end) ==
    /\ Len(end) <= Len(filename)
    /\ LowerAll(SubSeq(filename, Len(filename) - Len(end) + 1, Len(filename))) = LowerAll(end)

\* PlistToJsonListener.on_post_save: whether the saved view is converted.
SaveConverts(filename, ext2convert) ==
    /\ filename # None
    /\ \E i \in 1..Len(ext2convert) : EndsWithLower(filename, ext2convert[i])

\* The names in the arguments on_post_save gives the command.
SaveArgs == {"save_to_file", "show_file", "force"}

\* PlistToJsonListener.on_post_save
on_post_save(st, io_ok) ==
    IF SaveConverts(view_file_name, settings.json_to_plist_on_save)
    THEN run_command(JsonToPlist, st, SaveArgs, TRUE, FALSE, TRUE, io_ok)
    ELSE st

(***************************************************************************)
(* The actions.                                                            *)
(***************************************************************************)
MaxSteps == 3

Snapshot == [buffer |-> view_buffer, disk |-> disk, views |-> views, cmds |-> cmds,
             syntax |-> view_syntax]

Apply(st) ==
    /\ view_buffer' = st.buffer
    /\ view_syntax' = st.syntax
    /\ disk' = st.disk
    /\ views' = st.views
    /\ cmds' = st.cmds
    /\ dialogs' = st.dialogs
    /\ prev' = Snapshot
    /\ steps' = steps + 1
    /\ UNCHANGED <<view_file_name, settings>>

\* The history of the view's text after a handler that ran cmd.
Track(cmd) ==
    /\ origin' = origin
    /\ hops' = IF view_buffer' # view_buffer THEN Append(hops, cmd) ELSE hops

Handler(op, given, save_to_file, show_file, force, ensure_ascii, io_ok) ==
    [op |-> op, given |-> given, save_to_file |-> save_to_file, show_file |-> show_file,
     force |-> force, ensure_ascii |-> ensure_ascii, io_ok |-> io_ok]

\* The arguments of a command as run takes them: an argument that is not
\* given has the value of its default in run's signature.
RunArgs(given, save_to_file, show_file, force, ensure_ascii) ==
    /\ "save_to_file" \notin given => save_to_file = FALSE
    /\ "show_file" \notin given => show_file = TRUE
    /\ "force" \notin given => force = FALSE
    /\ "ensure_ascii" \notin given <=> ensure_ascii = "absent"

\* The user runs one of the commands on the view, from the palette, a menu or
\* a key binding; ensure_ascii is what the arguments say about that flag
\* ("absent", "true" or "false"): run takes it among its **kwargs.
RunCommand(cmd, given, save_to_file, show_file, force, ensure_ascii, io_ok) ==
    /\ steps < MaxSteps
    /\ RunArgs(given, save_to_file, show_file, force, ensure_ascii)
    /\ io_ok \/ (save_to_file /\ HasSaveTarget(view_file_name, DOMAIN disk))
    /\ Apply(run_command(cmd, Current, given, save_to_file, show_file, force, io_ok))
    /\ last' = Handler(cmd, given, save_to_file, show_file, force, ensure_ascii, io_ok)
    /\ Track(cmd)

\* The user saves the view: the editor writes the buffer to the view's file
\* and calls on_post_save.
Save(io_ok) ==
    /\ steps < MaxSteps
    /\ io_ok \/ view_file_name # None
    /\ LET saved == IF view_file_name = None THEN Current
                    ELSE [Current EXCEPT !.disk =
                            [f \in DOMAIN disk \cup {view_file_name} |->
                                IF f = view_file_name THEN view_buffer ELSE disk[f]]]
       IN  Apply(on_post_save(saved, io_ok))
    /\ last' = Handler("save", SaveArgs, TRUE, FALSE, TRUE, "absent", io_ok)
    /\ Track(JsonToPlist)

\* The user edits the view: its text becomes doc.
Edit(doc) ==
    /\ steps < MaxSteps
    /\ doc # view_buffer
    /\ Apply([Current EXCEPT !.buffer = doc])
    /\ last' = Handler("edit", {}, FALSE, TRUE, FALSE, "absent", TRUE)
    /\ origin' = doc
    /\ hops' = <<>>

(***************************************************************************)
(* The inputs: the texts a view holds, the names of its file, the          *)
(* settings.                                                               *)
(***************************************************************************)
MaxWidth == 2
MaxDepth == 2

\* A plist author's spelling of character data: "&", "<", ">" and CR written
\* as references.
RECURSIVE XmlSpell(_)
XmlSpell(s) ==
    IF s = <<>> THEN <<>>
    ELSE (CASE Head(s) = "&" -> <<"&", "a", "m", "p", ";">>
            [] Head(s) = "<" -> <<"&", "l", "t", ";">>
            [] Head(s) = ">" -> <<"&", "g", "t", ";">>
            [] Head(s) = "CR" -> <<"&", "#", "1", "3", ";">>
            [] OTHER -> <<Head(s)>>) \o XmlSpell(Tail(s))

\* The plist element a plist author writes for a value, a dict's keys in the
\* order of its pairs.
RECURSIVE XmlSourceOf(_)
XmlSourceOf(o) ==
    CASE o.t = "str" -> XmlText("string", XmlSpell(o.s))
      [] o.t = "int" -> XmlText("integer", IntStr(o.n))
      [] o.t = "bool" -> XmlEmpty(IF o.b THEN "true" ELSE "false")
      [] o.t = "date" -> XmlText("date", o.iso)
      [] o.t = "arr" -> XmlNode("array", [i \in 1..Len(o.items) |-> XmlSourceOf(o.items[i])])
      [] o.t = "dict" ->
            XmlNode("dict", Concat([i \in 1..Len(o.pairs) |->
                        <<XmlText("key", XmlSpell(o.pairs[i].k)), XmlSourceOf(o.pairs[i].v)>>]))

StrPool ==
    { <<>>, <<"a">>, <<"/", "/", "a">>, <<"/", "*">>, <<",", "]">>, <<",", " ", "}">>,
      <<"\"">>, <<"\\">>, <<"a", "\\", "\"", ",", "}">>, <<"CR">>, <<"a", "CR", "LF">>,
      <<"LF">>, <<"TAB">>, <<"e-acute">>, <<"&">>, <<"<", ">">> }

IntPool == {0, 7, -12, 305}
KeyPool == { <<"b">>, <<"a">>, <<"B">>, <<"a", "b">> }

Leaves == {PyStr(s) : s \in StrPool} \cup {PyInt(n) : n \in IntPool}
Small == {PyStr(<<"a">>), PyInt(7), PyStr(<<"/", "/">>)}

\* The sequences over S of length at most n.
SeqsUpTo(S, n) == UNION {[1..k -> S] : k \in 0..n}

\* The sequences of at most MaxWidth pairs with distinct keys.
PairSeqs(K, V) ==
    {ps \in SeqsUpTo([k : K, v : V], MaxWidth) :
        \A i, j \in 1..Len(ps) : i # j => ps[i].k # ps[j].k}

Flat ==
    Leaves
    \cup {PyList(<<x>>) : x \in Leaves}
    \cup {PyDict(<<[k |-> k, v |-> x]>>) : k \in KeyPool, x \in Leaves}
    \cup {PyList(xs) : xs \in SeqsUpTo(Small, MaxWidth)}
    \cup {PyDict(ps) : ps \in PairSeqs(KeyPool, {PyInt(7)})}
    \cup {PyDict(<<[k |-> <<"e-acute">>, v |-> PyStr(<<"e-acute">>)], [k |-> <<"CR">>, v |-> PyInt(0)]>>)}

\* A value inside an array and inside a dict.
Wrap(T) ==
    {PyList(<<PyInt(0), t>>) : t \in T}
    \cup {PyDict(<<[k |-> <<"b">>, v |-> t], [k |-> <<"a">>, v |-> PyInt(0)]>>) : t \in T}

RECURSIVE Nested(_)
Nested(d) == IF d <= 1 THEN Flat ELSE Flat \cup Wrap(Nested(d - 1))

\* Values built from strings, integers, arrays and dicts.
PlainTrees == Nested(MaxDepth)

Date2012 == PyDate(<<"2", "0", "1", "2", "-", "0", "1", "-", "0", "2", "T", "0", "3", ":",
                     "0", "4", ":", "0", "5", "Z">>)

\* Values that hold a date or a boolean.
OtherTrees ==
    { Date2012, PyList(<<PyInt(0), Date2012>>),
      PyDict(<<[k |-> <<"b">>, v |-> PyList(<<Date2012>>)], [k |-> <<"a">>, v |-> PyStr(<<"e-acute">>)]>>),
      PyBool(TRUE), PyList(<<PyBool(FALSE), PyStr(<<"e-acute">>)>>) }

PlistDocs == {XmlDoc(XmlSourceOf(t)) : t \in PlainTrees \cup OtherTrees}

\* A dict that writes a key twice.
TwiceDoc ==
    XmlDoc(XmlNode("dict", <<XmlText("key", <<"b">>), XmlText("integer", <<"1">>),
                             XmlText("key", <<"a">>), XmlText("integer", <<"2">>),
                             XmlText("key", <<"b">>), XmlText("integer", <<"3">>)>>))

\* JSON texts: strict, with comments, with trailing commas, with null, not JSON.
JsonDocs ==
    { TextDoc(<<"{", "\"", "a", "\"", ":", "1", ",", " ", "/", "*", " ", "x", " ", "*", "/", " ", "}">>),
      TextDoc(<<"[", "1", ",", "/", "/", "x", "]", "LF", "\"", "/", "/", "\"", ",", "]">>),
      TextDoc(<<"[", "\"", "\\", "u", "0", "0", "e", "9", "\\", "r", "\"", "]">>),
      TextDoc(<<"n", "u", "l", "l">>),
      TextDoc(<<"[", "1", ",", " ", "n", "u", "l", "l", ",", "]">>),
      TextDoc(<<"{", "\"", "a", "\"", ":", "n", "u", "l", "l", "}">>),
      TextDoc(<<"{", "\"", "b", "\"", ":", "[", "{", "\"", "a", "\"", ":", "n", "u", "l", "l", "}", "]", ",",
                "\"", "a", "\"", ":", "t", "r", "u", "e", "}", "/", "/", "x">>),
      TextDoc(<<"[", "\"", "\\", "u", "0", "0", "0", "1", "\"", "]">>),
      TextDoc(<<"[", "1", " ", "/", "*", "x">>),
      TextDoc(<<"[", "1", ",", ",", "]">>),
      TextDoc(<<"{", "\"", "a", "\"", ":", "1", ",", "\"", "a", "\"", ":", "n", "u", "l", "l", "}">>),
      TextDoc(<<>>) }

ConvDocs == PlistDocs \cup {TwiceDoc} \cup JsonDocs

Cfg(new_buffer, save_cmds, show_cmds, on_save, ext_tbl) ==
    [open_in_new_buffer |-> new_buffer,
     enable_save_to_file_commands |-> save_cmds,
     enable_show_in_buffer_commands |-> show_cmds,
     json_to_plist_on_save |-> on_save,
     conversion_ext |-> ext_tbl,
     json_language |-> "",
     plist_language |-> ""]

DotJson == <<".", "j", "s", "o", "n">>
DotX == <<".", "x">>

\* A conversion_ext table: the second entry's plist extension is the first's
\* in other letter case, and the first's json extension has a dot in it.
ExtTable ==
    << [plist |-> <<"P", "l", "i", "s", "t">>, json |-> <<"p", ".", "J">>],
       [plist |-> <<"P", "L", "I", "S", "T">>, json |-> <<"j", "s", "o", "n">>] >>

\* The settings the package ships with no file: every get() gives its default.
DefaultCfg == Cfg(FALSE, FALSE, FALSE, <<>>, <<>>)

EditorCfgs ==
    { DefaultCfg,
      Cfg(FALSE, FALSE, FALSE, <<DotX, DotJson>>, ExtTable),
      Cfg(TRUE, TRUE, TRUE, <<DotJson>>, ExtTable) }

FileNames ==
    { <<"/", "d", ".", "e", "/", "a", ".", "P", "l", "i", "s", "t">>,
      <<"/", "b", ".", "J", "S", "O", "N">>,
      <<"/", "c", ".", "p", "-", "j">> }

\* A file name whose file is gone from the disk.
GoneName == <<"/", "b", ".", "J", "S", "O", "N">>

EditorDocs ==
    { XmlDoc(XmlSourceOf(PyDict(<<[k |-> <<"b">>, v |-> PyInt(7)], [k |-> <<"a">>, v |-> PyStr(<<"a">>)]>>))),
      XmlDoc(XmlSourceOf(PyList(<<Date2012>>))),
      TextDoc(<<"[", "1", ",", "/", "/", "x", "LF", "]">>),
      TextDoc(<<"{", "\"", "a", "\"", ":", "\"", "/", "/", "\"", ",", " ", "/", "*", "x", "*", "/", "}">>),
      TextDoc(<<"{", "\"", "a", "\"", ":", "n", "u", "l", "l", "}">>) }

\* The arguments the package's menus, key bindings and palette entries give the
\* commands: none, save_to_file, force, or both.
CommandArgs ==
    { [given |-> {}, save_to_file |-> FALSE, show_file |-> TRUE, force |-> FALSE],
      [given |-> {"save_to_file"}, save_to_file |-> TRUE, show_file |-> TRUE, force |-> FALSE],
      [given |-> {"force"}, save_to_file |-> FALSE, show_file |-> TRUE, force |-> TRUE],
      [given |-> {"save_to_file", "force"}, save_to_file |-> TRUE, show_file |-> TRUE,
       force |-> TRUE] }

NoAttrs == [tree |-> NoTree, output |-> NoDoc, output_view |-> -1]

\* The state after the plugin is loaded and a view is open: no command has run.
Start(doc, name, files, cfg) ==
    /\ view_buffer = doc
    /\ view_file_name = name
    /\ view_syntax = "Packages/Text/Plain text.tmLanguage"
    /\ disk = files
    /\ views = <<>>
    /\ settings = cfg
    /\ cmds = [c \in Commands |-> NoAttrs]
    /\ dialogs = <<>>
    /\ last = Handler("none", {}, FALSE, TRUE, FALSE, "absent", TRUE)
    /\ prev = [buffer |-> doc, disk |-> files, views |-> <<>>,
               cmds |-> [c \in Commands |-> NoAttrs],
               syntax |-> "Packages/Text/Plain text.tmLanguage"]
    /\ origin = doc
    /\ hops = <<>>
    /\ steps = 0

NoFiles == [f \in {} |-> NoDoc]

\* A view on any of the editor's texts, unsaved, or with a file name whose
\* file is on disk (GoneName's is not).
Init ==
    \E doc \in EditorDocs, name \in FileNames \cup {None}, cfg \in EditorCfgs :
        Start(doc, name,
              IF name \in {None, GoneName} THEN NoFiles ELSE [f \in {name} |-> doc], cfg)

Next ==
    \/ \E cmd \in Commands, a \in CommandArgs, io_ok \in BOOLEAN :
          RunCommand(cmd, a.given, a.save_to_file, a.show_file, a.force, "absent", io_ok)
    \/ \E io_ok \in BOOLEAN : Save(io_ok)
    \/ \E doc \in EditorDocs : Edit(doc)

Spec == Init /\ [][Next]_vars

\* The conversions alone: an unsaved view on any of the texts, the default
\* settings, the commands run in place with any ensure_ascii argument.
InitConv == \E doc \in ConvDocs : Start(doc, None, NoFiles, DefaultCfg)

NextConv ==
    \/ \E ensure_ascii \in {"absent", "true", "false"} :
          RunCommand(PlistToJson, IF ensure_ascii = "absent" THEN {} ELSE {"ensure_ascii"},
                     FALSE, TRUE, FALSE, ensure_ascii, TRUE)
    \/ RunCommand(JsonToPlist, {}, FALSE, TRUE, FALSE, "absent", TRUE)

SpecConv == InitConv /\ [][NextConv]_vars

(***************************************************************************)
(* What the properties speak of: the handler that ran last, the state it   *)
(* started in (prev) and what it wrote.                                    *)
(***************************************************************************)
\* The last handler was a command, run by the user or by the save listener.
RanCommand == last.op \in Commands \cup {"save"}

LastCmd == IF last.op = "save" THEN JsonToPlist ELSE last.op

\* The files on disk when the command was asked for: on a save the editor has
\* written the view's text to its file by then.
SavedDisk ==
    IF last.op = "save" /\ view_file_name # None
    THEN [f \in DOMAIN prev.disk \cup {view_file_name} |->
            IF f = view_file_name THEN prev.buffer ELSE prev.disk[f]]
    ELSE prev.disk

\* Whether reading text as cmd reads it, or converting what was read, fails.
Failed(cmd, text) ==
    LET r == read_buffer(cmd, text) IN r.err \/ convert(cmd, r.obj).err

\* The conversion of text by cmd, when neither stage fails.
Expected(cmd, text) == convert(cmd, read_buffer(cmd, text).obj).output

\* The texts the last handler wrote: into the view, into views it made, into
\* files.
WrittenTexts ==
    (IF view_buffer # prev.buffer THEN {view_buffer} ELSE {})
    \cup {views[k].content : k \in (Len(prev.views) + 1)..Len(views)}
    \cup {disk[f] : f \in {g \in DOMAIN disk : g \notin DOMAIN SavedDisk \/ disk[g] # SavedDisk[g]}}

\* The command was enabled for its arguments and, on a save, asked for.
Entered ==
    /\ RanCommand
    /\ is_enabled_(settings, last.given, last.save_to_file, last.force)
    /\ last.op = "save" => SaveConverts(view_file_name, settings.json_to_plist_on_save)

Succeeded == Entered /\ ~Failed(LastCmd, prev.buffer)

\* The view's file was on disk when the command was asked for.
HadTarget == view_file_name # None /\ view_file_name \in DOMAIN SavedDisk

OutName == get_output_file(LastCmd, view_file_name, settings.conversion_ext)

RECURSIVE HasNull(_)
HasNull(o) ==
    CASE o.t = "null" -> TRUE
      [] o.t = "arr" -> \E i \in 1..Len(o.items) : HasNull(o.items[i])
      [] o.t = "dict" -> \E i \in 1..Len(o.pairs) : HasNull(o.pairs[i].v)
      [] OTHER -> FALSE

RECURSIVE HasDate(_)
HasDate(o) ==
    CASE o.t = "date" -> TRUE
      [] o.t = "arr" -> \E i \in 1..Len(o.items) : HasDate(o.items[i])
      [] o.t = "dict" -> \E i \in 1..Len(o.pairs) : HasDate(o.pairs[i].v)
      [] OTHER -> FALSE

\* Built from strings, integers, arrays and dicts.
RECURSIVE IsPlain(_)
IsPlain(o) ==
    CASE o.t \in {"str", "int"} -> TRUE
      [] o.t = "arr" -> \A i \in 1..Len(o.items) : IsPlain(o.items[i])
      [] o.t = "dict" -> \A i \in 1..Len(o.pairs) : IsPlain(o.pairs[i].v)
      [] OTHER -> FALSE

\* The value with the pairs of every dict in the order of their keys: two
\* values are equal as Python compares them when these are the same.
RECURSIVE Canon(_)
Canon(o) ==
    CASE o.t = "arr" -> PyList([i \in 1..Len(o.items) |-> Canon(o.items[i])])
      [] o.t = "dict" ->
            PyDict(SortedItems([i \in 1..Len(o.pairs) |->
                                    [k |-> o.pairs[i].k, v |-> Canon(o.pairs[i].v)]]))
      [] OTHER -> o

\* Every dict in o has its pairs in ascending order of key.
RECURSIVE KeysAscend(_)
KeysAscend(o) ==
    CASE o.t = "arr" -> \A i \in 1..Len(o.items) : KeysAscend(o.items[i])
      [] o.t = "dict" ->
            /\ \A i \in 1..(Len(o.pairs) - 1) : StrLess(o.pairs[i].k, o.pairs[i + 1].k)
            /\ \A i \in 1..Len(o.pairs) : KeysAscend(o.pairs[i].v)
      [] OTHER -> TRUE

\* Some dict in o has its pairs out of the order of their keys.
RECURSIVE HasUnsorted(_)
HasUnsorted(o) ==
    CASE o.t = "arr" -> \E i \in 1..Len(o.items) : HasUnsorted(o.items[i])
      [] o.t = "dict" ->
            \/ \E i \in 1..(Len(o.pairs) - 1) : StrLess(o.pairs[i + 1].k, o.pairs[i].k)
            \/ \E i \in 1..Len(o.pairs) : HasUnsorted(o.pairs[i].v)
      [] OTHER -> FALSE

(***************************************************************************)
(* The properties.                                                         *)
(***************************************************************************)

\* C1: output is all-or-nothing.  When reading the buffer or converting the
\* tree fails in a run of a command, that run writes no file and changes or
\* makes no buffer: a write happens only in a run where both succeeded.
C1_AllOrNothing ==
    (RanCommand /\ Failed(LastCmd, prev.buffer)) =>
        /\ view_buffer = prev.buffer
        /\ views = prev.views
        /\ disk = SavedDisk

\* A run to a file that is on disk, enabled, whose read succeeded and whose
\* conversion failed.
C1_Witness ==
    /\ last.op \in Commands
    /\ last.save_to_file /\ last.io_ok /\ HadTarget
    /\ dialogs \in {<<"plist2json">>, <<"json2plist">>}
    /\ ~read_buffer(last.op, prev.buffer).err

\* C2: the JSON text plist -> JSON writes has the keys of every dict, at every
\* depth, in ascending order, whatever their order in the plist.
C2_KeysSorted ==
    (last.op = PlistToJson /\ dialogs = <<>> /\ view_buffer # prev.buffer) =>
        /\ view_buffer.fmt = "text"
        /\ ~JsonLoads(view_buffer.chars).err
        /\ KeysAscend(JsonLoads(view_buffer.chars).obj)

\* A plist with a dict inside an array or a dict, the inner dict's keys out of
\* order, converted.
C2_Witness ==
    /\ last.op = PlistToJson /\ dialogs = <<>> /\ view_buffer # prev.buffer
    /\ prev.buffer.fmt = "xml"
    /\ LET o == readPlist(prev.buffer).obj IN
       \/ o.t = "arr" /\ \E i \in 1..Len(o.items) : HasUnsorted(o.items[i])
       \/ o.t = "dict" /\ \E i \in 1..Len(o.pairs) : HasUnsorted(o.pairs[i].v)

\* C3: round trip.  A plist of strings, integers, arrays and dicts, converted
\* plist -> JSON and the JSON converted JSON -> plist, gives a plist that
\* reads as the value the first plist reads as.
C3_RoundTrip ==
    (/\ hops = <<PlistToJson, JsonToPlist>>
     /\ origin.fmt = "xml"
     /\ ~readPlist(origin).err
     /\ IsPlain(readPlist(origin).obj)) =>
        /\ ~readPlist(view_buffer).err
        /\ Canon(readPlist(view_buffer).obj) = Canon(readPlist(origin).obj)

\* C4: plist -> JSON on a plist that holds a date succeeds and writes the date
\* as a string in ISO 8601.
C4_DateAsIsoString ==
    (/\ last.op = PlistToJson
     /\ ~readPlist(prev.buffer).err
     /\ HasDate(readPlist(prev.buffer).obj)) =>
        /\ dialogs = <<>>
        /\ view_buffer.fmt = "text"
        /\ \E i \in 1..Len(view_buffer.chars) :
              HasAt(view_buffer.chars, i, <<"\"">> \o Date2012.iso \o <<"\"">>)

\* C5: plist -> JSON takes an ensure_ascii flag and writes what json.dumps
\* writes with it: every non-ASCII character escaped when it is true, as it
\* is when it is false or not given.
C5_EnsureAsciiHonoured ==
    (/\ last.op = PlistToJson
     /\ ~readPlist(prev.buffer).err
     /\ JsonSerializable(readPlist(prev.buffer).obj)) =>
        view_buffer =
            TextDoc(JsonDumps(readPlist(prev.buffer).obj, last.ensure_ascii = "true").text)

\* C6: JSON -> plist on a text whose value holds a null, at any depth, fails:
\* the error is shown and nothing is written.
C6_NullRejected ==
    (/\ last.op = JsonToPlist
     /\ ~read_buffer(JsonToPlist, prev.buffer).err
     /\ HasNull(read_buffer(JsonToPlist, prev.buffer).obj)) =>
        /\ dialogs = <<"json2plist">>
        /\ view_buffer = prev.buffer
        /\ views = prev.views
        /\ disk = prev.disk
        /\ cmds[JsonToPlist].output = prev.cmds[JsonToPlist].output

\* JSON -> plist run on a dict with a null below one of its values.
C6_Witness ==
    /\ last.op = JsonToPlist
    /\ dialogs = <<"json2plist">>
    /\ LET o == read_buffer(JsonToPlist, prev.buffer).obj IN
       o.t = "dict" /\ \E i \in 1..Len(o.pairs) :
                          o.pairs[i].v.t # "null" /\ HasNull(o.pairs[i].v)

\* C7: no state is carried from one run to the next.  Whatever runs came
\* before on the same command, every text a run writes is the conversion of
\* the text the view had when that run started.
C7_NoStaleState ==
    RanCommand =>
        \A t \in WrittenTexts :
            /\ ~Failed(LastCmd, prev.buffer)
            /\ t = Expected(LastCmd, prev.buffer)

\* A command that wrote, on a command object that holds another output from
\* an earlier run.
C7_Witness ==
    /\ last.op \in Commands
    /\ WrittenTexts # {}
    /\ prev.cmds[last.op].output # NoDoc
    /\ prev.cmds[last.op].output # cmds[last.op].output

\* Whether the file name ends with one of the suffixes, letter case apart.
MatchesSuffix ==
    /\ view_file_name # None
    /\ \E i \in 1..Len(settings.json_to_plist_on_save) :
          \E k \in 1..(Len(view_file_name) + 1) :
              LowerAll(SubSeq(view_file_name, k, Len(view_file_name)))
                  = LowerAll(settings.json_to_plist_on_save[i])

\* C8: on the save of a view whose file name ends with a suffix of
\* json_to_plist_on_save, letter case apart, the JSON -> plist command runs on
\* the view, to the file and without showing it: it reports the error of the
\* stage that fails, or writes the plist to the output file.  On any other
\* save no command runs.
C8_SaveTriggersConversion ==
    last.op = "save" =>
        IF MatchesSuffix
        THEN IF read_buffer(JsonToPlist, prev.buffer).err THEN dialogs = <<"view2json">>
             ELSE IF Failed(JsonToPlist, prev.buffer) THEN dialogs = <<"json2plist">>
             ELSE IF ~last.io_ok THEN dialogs = <<"filewrite">>
             ELSE /\ dialogs = <<>>
                  /\ OutName \in DOMAIN disk
                  /\ disk[OutName] = Expected(JsonToPlist, prev.buffer)
                  /\ views = prev.views
                  /\ view_buffer = prev.buffer
        ELSE /\ dialogs = <<>>
             /\ disk = SavedDisk
             /\ views = prev.views
             /\ cmds = prev.cmds
             /\ view_buffer = prev.buffer

\* A save of a file whose name has the suffix in other letter case, with the
\* save_to_file commands not enabled in the settings: the plist is written.
C8_Witness ==
    /\ last.op = "save"
    /\ MatchesSuffix
    /\ view_file_name # LowerAll(view_file_name)
    /\ ~settings.enable_save_to_file_commands
    /\ dialogs = <<>>
    /\ OutName \in DOMAIN disk
    /\ OutName \notin DOMAIN SavedDisk

\* C9: with save_to_file the view's text is never changed: the output goes to
\* the output file when the view's file is on disk, and to a new buffer when
\* it is not, whatever open_in_new_buffer says.  The view's text changes only
\* without save_to_file and without open_in_new_buffer, and then it is the
\* output, all of it.
C9_WriteTargets ==
    RanCommand =>
        /\ last.save_to_file => view_buffer = prev.buffer
        /\ (Succeeded /\ last.save_to_file /\ HadTarget /\ last.io_ok) =>
              /\ OutName \in DOMAIN disk
              /\ disk[OutName] = Expected(LastCmd, prev.buffer)
              /\ \A k \in (Len(prev.views) + 1)..Len(views) : views[k].origin = "open_file"
        /\ (Succeeded /\ last.save_to_file /\ ~HadTarget) =>
              /\ disk = SavedDisk
              /\ Len(views) = Len(prev.views) + 1
              /\ views[Len(views)].origin = "new_file"
              /\ views[Len(views)].content = Expected(LastCmd, prev.buffer)
        /\ view_buffer # prev.buffer =>
              ~last.save_to_file /\ ~settings.open_in_new_buffer
        /\ (Succeeded /\ ~last.save_to_file /\ ~settings.open_in_new_buffer) =>
              view_buffer = Expected(LastCmd, prev.buffer)

\* save_to_file on a view with no file on disk, open_in_new_buffer off: the
\* output is in a new buffer.
C9_Witness ==
    /\ last.op \in Commands
    /\ Succeeded /\ last.save_to_file /\ ~HadTarget
    /\ ~settings.open_in_new_buffer
    /\ Len(views) = Len(prev.views) + 1

\* The name that has ext, after a dot, at its end, letter case apart.
EndsWithExt(filename, ext) ==
    /\ Len(filename) > Len(ext)
    /\ LowerAll(SubSeq(filename, Len(filename) - Len(ext), Len(filename)))
          = LowerAll(<<".">> \o ext)

\* The output name as C10 gives it.
NameByTable(cmd, filename, ext_tbl) ==
    LET from == IF cmd = PlistToJson THEN "plist" ELSE "json"
        to == IF cmd = PlistToJson THEN "json" ELSE "plist"
        hits == {i \in 1..Len(ext_tbl) : EndsWithExt(filename, ext_tbl[i][from])}
    IN  IF hits # {}
        THEN LET i == CHOOSE i \in hits : \A j \in hits : i <= j
             IN  SubSeq(filename, 1, Len(filename) - Len(ext_tbl[i][from]) - 1)
                    \o <<".">> \o ext_tbl[i][to]
        ELSE splitext_root(filename)
                \o (IF cmd = PlistToJson THEN <<".", "J", "S", "O", "N">>
                    ELSE <<".", "p", "l", "i", "s", "t">>)

\* C10: the output file is named by the first entry of conversion_ext whose
\* extension for the source format ends the file name, letter case apart: the
\* name without that extension, with the entry's extension for the target
\* format.  With no such entry the name's extension gives way to the default
\* one, .JSON or .plist.
C10_OutputFileName ==
    (RanCommand /\ view_file_name # None) =>
        /\ \A f \in DOMAIN disk :
              (f \notin DOMAIN SavedDisk \/ disk[f] # SavedDisk[f]) =>
                  f = NameByTable(LastCmd, view_file_name, settings.conversion_ext)
        /\ \A k \in (Len(prev.views) + 1)..Len(views) :
              views[k].name =
                  IF views[k].origin = "open_file"
                  THEN NameByTable(LastCmd, view_file_name, settings.conversion_ext)
                  ELSE basename(NameByTable(LastCmd, view_file_name, settings.conversion_ext))

====
